---------------------------- MODULE Spec2Model ----------------------------
(***************************************************************************)
(* Model of the log-structured key-value store of kvs/src/kv.rs: the       *)
(* command log kvs.log as a sequence of bytes, the in-memory index of      *)
(* CommandPos entries, replay on open, set / get / remove, and the         *)
(* compaction that copies the live records into new.log and renames it     *)
(* over kvs.log.                                                           *)
(*                                                                         *)
(* Every handler is one atomic action, its compaction included, and all    *)
(* I/O calls succeed.  Spec is the store under a caller that opens, reads, *)
(* writes and drops it, in a process that may stop inside compact();       *)
(* SpecTorn has the process stop while a record is being written instead,  *)
(* SpecCalls has no process stop, and SpecCli is the executable of         *)
(* bin/kvs.rs run again and again on one directory.                        *)
(***************************************************************************)
EXTENDS Integers, Sequences, FiniteSets, TLC

\* ------------------------------------------------------------------ bounds

\* Longest kvs.log, in bytes, an operation may produce.
MaxLog == 44

\* Cap on the uncompacted counter (a u64 in the code).
MaxUncompacted == 34

\* Longest log, in bytes, an operation of the lib.rs store may produce.
LibMaxLog == 88

\* Largest value of the counter redundant of the lib.rs store, which no
\* operation of the store ever lowers.
LibMaxRedundant == 4

\* kv.rs:19 sets 1024 * 1024.  The model scales the threshold down to the
\* size of its records (a Set is 10 or 11 bytes, a Rm 7), so that its
\* workloads reach it, meet it exactly and cross it.
COMPACTION_THRESHOLD == 17

\* Keys "a" and "b", values "x" and "yy", as UTF-8 bytes.
Keys == {<<97>>, <<98>>}
Values == {<<120>>, <<121, 121>>}

\* Option<String>: None is <<>>, Some(v) is <<v>>.
None == <<>>
Some(v) == <<v>>

Min(a, b) == IF a <= b THEN a ELSE b
Max(a, b) == IF a >= b THEN a ELSE b

\* ------------------------------------------------------------------- files

\* The bytes a reader positioned at pos gets from take(len): at most len,
\* fewer at end of file.
ReadBytes(f, pos, len) ==
    IF pos >= Len(f) THEN <<>> ELSE SubSeq(f, pos + 1, Min(pos + len, Len(f)))

\* n zero bytes: the hole a write beyond the end of a file leaves.
RECURSIVE Zeros(_)
Zeros(n) == IF n <= 0 THEN <<>> ELSE <<0>> \o Zeros(n - 1)

\* A write of bytes at offset pos through a handle opened without append
\* and without truncate: overwrites in place and extends the file.
WriteAt(f, pos, bytes) ==
    SubSeq(f, 1, Min(pos, Len(f))) \o Zeros(pos - Len(f)) \o bytes
        \o SubSeq(f, pos + Len(bytes) + 1, Len(f))

\* BufWriterWithPos: the position after bytes were written at pos.
PosAfterWrite(pos, bytes) == pos + Len(bytes)

\* BufWriterWithPos::new and BufReaderWithPos::new on a file just opened.
StartPos == 0

\* seek(SeekFrom::End(0)) on the file f.
SeekEnd(f) == Len(f)

\* ------------------------------------------------------------------- codec

\* MessagePack fixstr: marker 0xa0 | len, then the bytes.
FixStr(s) == <<160 + Len(s)>> \o s

NameSet == <<83, 101, 116>>
NameRm == <<82, 109>>

\* rmp_serde's encoding of Command::Set { key, value }: a one-entry map
\* (0x81) from the variant name to the array of the fields (0x92).
EncodeSet(key, value) ==
    <<129>> \o FixStr(NameSet) \o <<146>> \o FixStr(key) \o FixStr(value)

\* Command::Rm { key }: a one-entry map to a one-element array (0x91).
EncodeRm(key) == <<129>> \o FixStr(NameRm) \o <<145>> \o FixStr(key)

DecodeError == [ok |-> FALSE]

\* One fixstr read at offset p of f, not beyond offset lim.
ReadStr(f, p, lim) ==
    IF p >= lim THEN DecodeError
    ELSE LET m == f[p + 1]
         IN  IF m < 160 \/ m > 191 \/ p + 1 + (m - 160) > lim THEN DecodeError
             ELSE [ok |-> TRUE, str |-> SubSeq(f, p + 2, p + 1 + (m - 160)),
                   next |-> p + 1 + (m - 160)]

\* rmp_serde::from_read of one Command at offset p of f, reading no byte at
\* or after offset lim.  next is the reader's position after the record.
Decode(f, p, lim) ==
    IF p >= lim \/ f[p + 1] # 129 THEN DecodeError
    ELSE LET name == ReadStr(f, p + 1, lim)
         IN  IF ~name.ok \/ name.next >= lim THEN DecodeError
             ELSE LET arr == f[name.next + 1]
                      key == ReadStr(f, name.next + 1, lim)
                  IN  IF ~key.ok THEN DecodeError
                      ELSE IF name.str = NameRm /\ arr = 145
                      THEN [ok |-> TRUE, cmd |-> "Rm", key |-> key.str,
                            value |-> <<>>, next |-> key.next]
                      ELSE IF name.str = NameSet /\ arr = 146
                      THEN LET value == ReadStr(f, key.next, lim)
                           IN  IF ~value.ok THEN DecodeError
                               ELSE [ok |-> TRUE, cmd |-> "Set", key |-> key.str,
                                     value |-> value.str, next |-> value.next]
                      ELSE DecodeError

\* ------------------------------------------------------------------- index

\* CommandPos with the end of the range taken for its length.
CommandPosEndAsLen(start, end) == [pos |-> start, len |-> end]

\* From<Range<u64>> for CommandPos.
CommandPos(start, end) == [pos |-> start, len |-> end - start]

\* BTreeMap::insert.
Insert(idx, key, cp) ==
    [k \in DOMAIN idx \cup {key} |-> IF k = key THEN cp ELSE idx[k]]

\* BTreeMap::remove.
Delete(idx, key) == [k \in DOMAIN idx \ {key} |-> idx[k]]

EmptyIndex == [k \in {} |-> CommandPos(0, 0)]

\* Ord for String: lexicographic on the bytes.
RECURSIVE StrLess(_, _)
StrLess(a, b) ==
    IF b = <<>> THEN FALSE
    ELSE IF a = <<>> THEN TRUE
    ELSE IF Head(a) # Head(b) THEN Head(a) < Head(b)
    ELSE StrLess(Tail(a), Tail(b))

\* The keys of S in the order BTreeMap iterates them.
RECURSIVE SortedKeys(_)
SortedKeys(S) ==
    IF S = {} THEN <<>>
    ELSE LET k == CHOOSE x \in S : \A y \in S \ {x} : StrLess(x, y)
         IN  <<k>> \o SortedKeys(S \ {k})

\* ------------------------------------------------------------------- state

VARIABLES
    dir,          \* the data directory: file name -> bytes of the file
    alive,        \* TRUE while an engine instance exists
    index,        \* KvStore.index: key -> CommandPos
    uncompacted,  \* KvStore.uncompacted
    writerPos,    \* KvStore.writer.pos()
    readerPos,    \* KvStore.reader.pos()
    last,         \* the call that returned last, and what it returned
    before,       \* what get returned for each key before the call in last;
                  \* while no instance exists and after open, what it
                  \* returned when the last instance ended
    endedBy,      \* how the instance before this one ended: "none", "drop",
                  \* "crash" (inside a compaction) or "torn" (inside the
                  \* write of a record)
    lib,          \* the store of kvs/src/lib.rs and its data directory
    codec         \* the ping demo of building-blocks and its connection

vars == <<dir, alive, index, uncompacted, writerPos, readerPos, last, before, endedBy,
          lib, codec>>

\* The variables of the store of kv.rs.
kvVars == <<dir, alive, index, uncompacted, writerPos, readerPos, last, before, endedBy>>

\* The lib.rs store before its first open: no instance, and a data directory
\* whose files "log" and "log.new" have no bytes (a file that does not exist
\* and an empty one are the same to create(true) without truncate).
LibStart ==
    [log |-> <<>>, newLog |-> <<>>, open |-> FALSE, cursor |-> 0,
     index |-> << >>, redundant |-> 0,
     last |-> [op |-> "none", key |-> <<>>, res |-> "ok", out |-> <<>>,
               compacted |-> FALSE]]

\* The ping demo with nothing sent.
CodecStart == [at |-> "idle"]

LogName == "kvs.log"
NewName == "new.log"

\* The bytes of a file of the directory, <<>> when there is no such file.
FileOf(d, name) == IF name \in DOMAIN d THEN d[name] ELSE <<>>

\* The bytes of kvs.log.
Log == FileOf(dir, LogName)

\* OpenOptions::new().create(true): the file is created empty when absent
\* and left as it is otherwise.
Create(d, name) ==
    [n \in DOMAIN d \cup {name} |-> IF n \in DOMAIN d THEN d[n] ELSE <<>>]

\* fs::rename(from, to): to gets from's file, from is gone.
Rename(d, from, to) ==
    [n \in (DOMAIN d \cup {to}) \ {from} |-> IF n = to THEN d[from] ELSE d[n]]

PutFile(d, name, bytes) ==
    [n \in DOMAIN d \cup {name} |-> IF n = name THEN bytes ELSE d[n]]

\* ------------------------------------------------------------------ replay

\* The loop of load(): one record per round from offset pos.
RECURSIVE LoadFrom(_, _, _, _)
LoadFrom(f, pos, idx, unc) ==
    IF pos >= SeekEnd(f)
    THEN [ok |-> TRUE, index |-> idx, uncompacted |-> unc, readerPos |-> pos]
    ELSE LET d == Decode(f, pos, Len(f))
         IN  IF ~d.ok
             THEN [ok |-> FALSE, index |-> idx, uncompacted |-> unc, readerPos |-> pos]
             ELSE IF d.cmd = "Set"
             THEN LoadFrom(f, d.next, Insert(idx, d.key, CommandPos(pos, d.next)), unc)
             ELSE LoadFrom(f, d.next, Delete(idx, d.key),
                           unc + (IF d.key \in DOMAIN idx THEN idx[d.key].len ELSE 0)
                               + (d.next - pos))

load(f) == LoadFrom(f, StartPos, EmptyIndex, 0)

\* open(): the writer is made on the log and sought to its end.
OpenWriterPos(f) == SeekEnd(f)

\* --------------------------------------------------------------------- get

\* KvStore::get on a log f and an index idx: what it returns and where it
\* leaves the reader.
GetOn(f, idx, rpos, key) ==
    IF key \notin DOMAIN idx
    THEN [res |-> "ok", out |-> None, readerPos |-> rpos]
    ELSE LET cp == idx[key]
             lim == Min(cp.pos + cp.len, Len(f))
             d == Decode(f, cp.pos, lim)
         IN  IF ~d.ok THEN [res |-> "Des", out |-> None, readerPos |-> Max(cp.pos, lim)]
             ELSE IF d.cmd = "Set"
             THEN [res |-> "ok", out |-> Some(d.value), readerPos |-> d.next]
             ELSE [res |-> "UnexpectedCommandType", out |-> None, readerPos |-> d.next]

\* The result of get(key) on the instance as it is.
GetResult(key) ==
    LET g == GetOn(FileOf(dir, LogName), index, readerPos, key)
    IN  [res |-> g.res, out |-> g.out]

\* -------------------------------------------------------------- compaction

\* The loop of compact() without the assignment to *cmd_pos.
RECURSIVE CopyEntriesNoRepoint(_, _, _, _)
CopyEntriesNoRepoint(f, ks, idx, out) ==
    IF ks = <<>> THEN [index |-> idx, out |-> out]
    ELSE CopyEntriesNoRepoint(f, Tail(ks), idx,
                              out \o ReadBytes(f, idx[Head(ks)].pos, idx[Head(ks)].len))

\* The loop of compact() with every copy written at the start of new.log.
RECURSIVE CopyEntriesNoAdvance(_, _, _, _)
CopyEntriesNoAdvance(f, ks, idx, out) ==
    IF ks = <<>> THEN [index |-> idx, out |-> out]
    ELSE LET bytes == ReadBytes(f, idx[Head(ks)].pos, idx[Head(ks)].len)
         IN  CopyEntriesNoAdvance(f, Tail(ks),
                                  [idx EXCEPT ![Head(ks)] = CommandPos(0, Len(bytes))],
                                  WriteAt(out, 0, bytes))

\* The loop of compact(): the entries in key order, each copied from the log
\* to the end of out and re-pointed to where its copy starts.
RECURSIVE CopyEntries(_, _, _, _)
CopyEntries(f, ks, idx, out) ==
    IF ks = <<>> THEN [index |-> idx, out |-> out]
    ELSE LET key == Head(ks)
             bytes == ReadBytes(f, idx[key].pos, idx[key].len)
             start == Len(out)
         IN  CopyEntries(f, Tail(ks),
                         [idx EXCEPT ![key] = CommandPos(start, start + Len(bytes))],
                         out \o bytes)

\* compact() on the directory d and the index idx: new.log is opened without
\* truncation, written from offset 0, renamed over kvs.log; the writer is
\* the compaction writer and the reader is reopened.  uncompacted is not
\* assigned.
compact(d, idx, unc) ==
    LET c == CopyEntries(FileOf(d, LogName), SortedKeys(DOMAIN idx), idx, <<>>)
        d1 == Create(d, NewName)
        d2 == PutFile(d1, NewName, WriteAt(d1[NewName], StartPos, c.out))
    IN  [dir |-> Rename(d2, NewName, LogName), index |-> c.index,
         uncompacted |-> unc, writerPos |-> PosAfterWrite(StartPos, c.out),
         readerPos |-> StartPos,
         compacted |-> TRUE]

\* ----------------------------------------------------------- set and remove

\* set() that keeps the index entry of a key that has one.
SetAppendKeepOld(key, value) ==
    LET pos == writerPos
        rec == EncodeSet(key, value)
        end == PosAfterWrite(pos, rec)
    IN  [dir |-> PutFile(dir, LogName, WriteAt(FileOf(dir, LogName), pos, rec)),
         index |-> IF key \in DOMAIN index THEN index
                   ELSE Insert(index, key, CommandPos(pos, end)),
         uncompacted |-> uncompacted,
         writerPos |-> end, readerPos |-> readerPos, compacted |-> FALSE]

\* set() that does not count the entry it displaces.
SetAppendNoCount(key, value) ==
    LET pos == writerPos
        rec == EncodeSet(key, value)
        end == PosAfterWrite(pos, rec)
    IN  [dir |-> PutFile(dir, LogName, WriteAt(FileOf(dir, LogName), pos, rec)),
         index |-> Insert(index, key, CommandPos(pos, end)),
         uncompacted |-> uncompacted,
         writerPos |-> end, readerPos |-> readerPos, compacted |-> FALSE]

\* set() up to its test of the threshold: the record is written at the
\* writer's position and flushed, the index entry inserted, the displaced
\* entry's length added to uncompacted.
SetAppend(key, value) ==
    LET pos == writerPos
        rec == EncodeSet(key, value)
        end == PosAfterWrite(pos, rec)
    IN  [dir |-> PutFile(dir, LogName, WriteAt(FileOf(dir, LogName), pos, rec)),
         index |-> Insert(index, key, CommandPos(pos, end)),
         uncompacted |->
             uncompacted + (IF key \in DOMAIN index THEN index[key].len ELSE 0),
         writerPos |-> end, readerPos |-> readerPos, compacted |-> FALSE]

\* remove() that writes its record and leaves the index entry.
RemoveAppendKeepEntry(key) ==
    LET pos == writerPos
        rec == EncodeRm(key)
        new_pos == PosAfterWrite(pos, rec)
    IN  [dir |-> PutFile(dir, LogName, WriteAt(FileOf(dir, LogName), pos, rec)),
         index |-> index,
         uncompacted |-> uncompacted + (new_pos - pos) + index[key].len,
         writerPos |-> new_pos, readerPos |-> readerPos, compacted |-> FALSE]

\* remove() of a key of the index up to its test of the threshold.
RemoveAppend(key) ==
    LET pos == writerPos
        rec == EncodeRm(key)
        new_pos == PosAfterWrite(pos, rec)
    IN  [dir |-> PutFile(dir, LogName, WriteAt(FileOf(dir, LogName), pos, rec)),
         index |-> Delete(index, key),
         uncompacted |-> uncompacted + (new_pos - pos) + index[key].len,
         writerPos |-> new_pos, readerPos |-> readerPos, compacted |-> FALSE]

\* set() that never finds uncompacted over the threshold.
MustCompactNever(unc) == unc > COMPACTION_THRESHOLD + MaxUncompacted

\* set() that compacts as soon as uncompacted reaches the threshold.
MustCompactAtThreshold(unc) == unc >= COMPACTION_THRESHOLD

\* if self.uncompacted > COMPACTION_THRESHOLD
MustCompact(unc) == unc > COMPACTION_THRESHOLD

\* The end of set() and of remove(): compact when over the threshold.
Finish(a) ==
    IF MustCompact(a.uncompacted) THEN compact(a.dir, a.index, a.uncompacted) ELSE a

\* The model's bounds on what an operation may leave behind.
Within(a) ==
    /\ Len(a.dir[LogName]) <= MaxLog
    /\ a.uncompacted <= MaxUncompacted

Install(a) ==
    /\ dir' = a.dir
    /\ index' = a.index
    /\ uncompacted' = a.uncompacted
    /\ writerPos' = a.writerPos
    /\ readerPos' = a.readerPos

\* The mapping of an empty store.
Nothing == [k \in Keys |-> [res |-> "ok", out |-> None]]

\* What get returns, key by key, on the directory and the index of a.
ObservedIn(a) ==
    [k \in Keys |->
        LET g == GetOn(FileOf(a.dir, LogName), a.index, StartPos, k)
        IN  [res |-> g.res, out |-> g.out]]

\* A call that ran no compaction.
Call(op, key, value, res, out) ==
    [op |-> op, key |-> key, value |-> value, res |-> res, out |-> out,
     compacted |-> FALSE, midKeys |-> {}, mid |-> Nothing]

\* The set or remove that made the write a and returned in the state b:
\* when it compacted, midKeys and mid are the keys of the index and what get
\* returned for each key as the compaction started.
WriteCall(op, key, value, a, b) ==
    [op |-> op, key |-> key, value |-> value, res |-> "ok", out |-> None,
     compacted |-> b.compacted,
     midKeys |-> IF b.compacted THEN DOMAIN a.index ELSE {},
     mid |-> IF b.compacted THEN ObservedIn(a) ELSE Nothing]

\* The mapping get would return, key by key.
Observed == [k \in Keys |-> GetResult(k)]

\* ----------------------------------------------------------------- actions

Init ==
    /\ dir = [n \in {} |-> <<>>]
    /\ alive = FALSE
    /\ index = EmptyIndex
    /\ uncompacted = 0
    /\ writerPos = 0
    /\ readerPos = 0
    /\ last = Call("none", <<>>, <<>>, "ok", None)
    /\ before = Nothing
    /\ endedBy = "none"
    /\ lib = LibStart
    /\ codec = CodecStart

\* KvStore::open with truncate(true) among its OpenOptions: the log starts
\* empty.
OpenOkTruncates ==
    /\ UNCHANGED <<lib, codec>>
    /\ ~alive
    /\ dir' = PutFile(dir, LogName, <<>>)
    /\ alive' = TRUE
    /\ index' = EmptyIndex
    /\ uncompacted' = 0
    /\ writerPos' = 0
    /\ readerPos' = 0
    /\ last' = Call("open", <<>>, <<>>, "ok", None)
    /\ UNCHANGED <<before, endedBy>>

\* KvStore::open with a log that replays.
OpenOk ==
    /\ UNCHANGED <<lib, codec>>
    /\ ~alive
    /\ LET d == Create(dir, LogName)
           l == load(d[LogName])
       IN  /\ l.ok
           /\ dir' = d
           /\ alive' = TRUE
           /\ index' = l.index
           /\ uncompacted' = l.uncompacted
           /\ writerPos' = OpenWriterPos(d[LogName])
           /\ readerPos' = l.readerPos
    /\ last' = Call("open", <<>>, <<>>, "ok", None)
    /\ UNCHANGED <<before, endedBy>>

\* KvStore::open that cuts the log off where its replay failed.
OpenErrTruncates ==
    /\ UNCHANGED <<lib, codec>>
    /\ ~alive
    /\ ~load(Create(dir, LogName)[LogName]).ok
    /\ dir' = PutFile(dir, LogName, SubSeq(Log, 1, load(Log).readerPos))
    /\ last' = Call("open", <<>>, <<>>, "Des", None)
    /\ UNCHANGED <<alive, index, uncompacted, writerPos, readerPos, before, endedBy>>

\* KvStore::open with a log whose replay fails: no instance.
OpenErr ==
    /\ UNCHANGED <<lib, codec>>
    /\ ~alive
    /\ ~load(Create(dir, LogName)[LogName]).ok
    /\ dir' = Create(dir, LogName)
    /\ last' = Call("open", <<>>, <<>>, "Des", None)
    /\ UNCHANGED <<alive, index, uncompacted, writerPos, readerPos, before, endedBy>>

\* get() that ends like set(): it compacts when uncompacted is over the
\* threshold.
GetCompacts(key) ==
    /\ UNCHANGED <<lib, codec>>
    /\ alive
    /\ LET g == GetOn(FileOf(dir, LogName), index, readerPos, key)
           a == Finish([dir |-> dir, index |-> index, uncompacted |-> uncompacted,
                        writerPos |-> writerPos, readerPos |-> g.readerPos,
                        compacted |-> FALSE])
       IN  /\ Install(a)
           /\ last' = Call("get", key, <<>>, g.res, g.out)
    /\ before' = Observed
    /\ UNCHANGED <<alive, endedBy>>

Get(key) ==
    /\ UNCHANGED <<lib, codec>>
    /\ alive
    /\ LET g == GetOn(FileOf(dir, LogName), index, readerPos, key)
       IN  /\ readerPos' = g.readerPos
           /\ last' = Call("get", key, <<>>, g.res, g.out)
    /\ before' = Observed
    /\ UNCHANGED <<dir, alive, index, uncompacted, writerPos, endedBy>>

Set(key, value) ==
    /\ UNCHANGED <<lib, codec>>
    /\ alive
    /\ LET a == Finish(SetAppend(key, value))
       IN  /\ Within(SetAppend(key, value))
           /\ Install(a)
           /\ last' = WriteCall("set", key, value, SetAppend(key, value), a)
    /\ before' = Observed
    /\ UNCHANGED <<alive, endedBy>>

RemoveOk(key) ==
    /\ UNCHANGED <<lib, codec>>
    /\ alive
    /\ key \in DOMAIN index
    /\ LET a == Finish(RemoveAppend(key))
       IN  /\ Within(RemoveAppend(key))
           /\ Install(a)
           /\ last' = WriteCall("remove", key, <<>>, RemoveAppend(key), a)
    /\ before' = Observed
    /\ UNCHANGED <<alive, endedBy>>

\* remove() that writes its record before it looks the key up.
RemoveAbsentWrites(key) ==
    /\ UNCHANGED <<lib, codec>>
    /\ alive
    /\ key \notin DOMAIN index
    /\ LET rec == EncodeRm(key)
       IN  /\ Len(Log) + Len(rec) <= MaxLog
           /\ dir' = PutFile(dir, LogName, WriteAt(Log, writerPos, rec))
           /\ writerPos' = PosAfterWrite(writerPos, rec)
    /\ last' = Call("remove", key, <<>>, "NonExistentKey", None)
    /\ before' = Observed
    /\ UNCHANGED <<alive, index, uncompacted, readerPos, endedBy>>

\* remove() of a key that is not in the index.
RemoveAbsent(key) ==
    /\ UNCHANGED <<lib, codec>>
    /\ alive
    /\ key \notin DOMAIN index
    /\ last' = Call("remove", key, <<>>, "NonExistentKey", None)
    /\ before' = Observed
    /\ UNCHANGED <<dir, alive, index, uncompacted, writerPos, readerPos, endedBy>>

\* The instance ends; its files stay.
End(how) ==
    /\ UNCHANGED <<lib, codec>>
    /\ alive' = FALSE
    /\ index' = EmptyIndex
    /\ uncompacted' = 0
    /\ writerPos' = 0
    /\ readerPos' = 0
    /\ endedBy' = how

\* The caller drops the instance.
Drop ==
    /\ alive
    /\ End("drop")
    /\ before' = Observed
    /\ last' = Call("drop", <<>>, <<>>, "ok", None)
    /\ UNCHANGED dir

\* The process stops inside the compact() that the write a started, when the
\* copies of the first n entries have reached new.log (the compaction writer
\* is buffered and flushed once, after the loop) and the rename has not
\* happened.
CrashIn(a, n) ==
    LET ks == SortedKeys(DOMAIN a.index)
        c == CopyEntries(a.dir[LogName], SubSeq(ks, 1, n), a.index, <<>>)
        d1 == Create(a.dir, NewName)
    IN  /\ MustCompact(a.uncompacted)
        /\ dir' = PutFile(d1, NewName, WriteAt(d1[NewName], 0, c.out))
        /\ End("crash")
        /\ before' = ObservedIn(a)
        /\ last' = Call("crash", <<>>, <<>>, "ok", None)

\* The process stops inside the compact() that the write a started, after
\* the rename of new.log over kvs.log.
CrashAfterRename(a) ==
    /\ MustCompact(a.uncompacted)
    /\ dir' = compact(a.dir, a.index, a.uncompacted).dir
    /\ End("crash")
    /\ before' = ObservedIn(a)
    /\ last' = Call("crash", <<>>, <<>>, "ok", None)

SetCrash(key, value) ==
    /\ alive
    /\ Within(SetAppend(key, value))
    /\ \/ \E n \in 0..Cardinality(DOMAIN SetAppend(key, value).index) :
              CrashIn(SetAppend(key, value), n)
       \/ CrashAfterRename(SetAppend(key, value))

RemoveCrash(key) ==
    /\ alive
    /\ key \in DOMAIN index
    /\ Within(RemoveAppend(key))
    /\ \/ \E n \in 0..Cardinality(DOMAIN RemoveAppend(key).index) :
              CrashIn(RemoveAppend(key), n)
       \/ CrashAfterRename(RemoveAppend(key))

\* The process stops inside the flush of a set() or a remove() of a key of
\* the index, when the first n bytes of the record rec have reached the log
\* and the rest has not.
Torn(rec, n) ==
    /\ Len(Log) + Len(rec) <= MaxLog
    /\ dir' = PutFile(dir, LogName, WriteAt(Log, writerPos, SubSeq(rec, 1, n)))
    /\ End("torn")
    /\ before' = Observed
    /\ last' = Call("crash", <<>>, <<>>, "ok", None)

SetTorn(key, value) ==
    /\ alive
    /\ \E n \in 1..(Len(EncodeSet(key, value)) - 1) :
           Torn(EncodeSet(key, value), n)

RemoveTorn(key) ==
    /\ alive
    /\ key \in DOMAIN index
    /\ \E n \in 1..(Len(EncodeRm(key)) - 1) : Torn(EncodeRm(key), n)

\* The calls of a caller, with no process stop.
NextCalls ==
    \/ OpenOk
    \/ \E k \in Keys : Get(k)
    \/ \E k \in Keys, v \in Values : Set(k, v)
    \/ \E k \in Keys : RemoveOk(k)
    \/ \E k \in Keys : RemoveAbsent(k)
    \/ Drop

SpecCalls == Init /\ [][NextCalls]_vars

\* The calls of a caller, and the process stopping inside a compaction.
Next ==
    \/ OpenOk
    \/ OpenErr
    \/ \E k \in Keys : Get(k)
    \/ \E k \in Keys, v \in Values : Set(k, v)
    \/ \E k \in Keys : RemoveOk(k)
    \/ \E k \in Keys : RemoveAbsent(k)
    \/ Drop
    \/ \E k \in Keys, v \in Values : SetCrash(k, v)
    \/ \E k \in Keys : RemoveCrash(k)

Spec == Init /\ [][Next]_vars

\* The calls of a caller, and the process stopping inside the write of a
\* record.
NextTorn ==
    \/ OpenOk
    \/ OpenErr
    \/ \E k \in Keys : Get(k)
    \/ \E k \in Keys, v \in Values : Set(k, v)
    \/ \E k \in Keys : RemoveOk(k)
    \/ \E k \in Keys : RemoveAbsent(k)
    \/ Drop
    \/ \E k \in Keys, v \in Values : SetTorn(k, v)
    \/ \E k \in Keys : RemoveTorn(k)

SpecTorn == Init /\ [][NextTorn]_vars

\* set() when the write of its record returns an error before a byte of it
\* reached the log: the ? at kv.rs:148 returns, the index and uncompacted
\* are not touched and no compaction is tried.
SetErr(key, value) ==
    /\ UNCHANGED <<lib, codec>>
    /\ alive
    /\ last' = Call("set", key, value, "Ser", None)
    /\ before' = Observed
    /\ UNCHANGED <<dir, alive, index, uncompacted, writerPos, readerPos, endedBy>>

\* remove() of a key of the index when the write of its record returns an
\* error before a byte of it reached the log: index.remove at kv.rs:176 has
\* run, the ? at kv.rs:179 returns before the accounting.
RemoveErr(key) ==
    /\ UNCHANGED <<lib, codec>>
    /\ alive
    /\ key \in DOMAIN index
    /\ index' = Delete(index, key)
    /\ last' = Call("remove", key, <<>>, "Ser", None)
    /\ before' = Observed
    /\ UNCHANGED <<dir, alive, uncompacted, writerPos, readerPos, endedBy>>

\* The caller of SpecIo goes on with an instance as long as its calls
\* succeed.
IoGet(key) == last.res # "Ser" /\ Get(key)

IoSet(key, value) == last.res # "Ser" /\ Set(key, value)

IoRemoveOk(key) == last.res # "Ser" /\ RemoveOk(key)

IoRemoveAbsent(key) == last.res # "Ser" /\ RemoveAbsent(key)

IoSetErr(key, value) == last.res # "Ser" /\ SetErr(key, value)

IoRemoveErr(key) == last.res # "Ser" /\ RemoveErr(key)

\* The calls of a caller whose writes may fail and who drops the instance
\* after a write failed.
NextIo ==
    \/ OpenOk
    \/ \E k \in Keys : IoGet(k)
    \/ \E k \in Keys, v \in Values : IoSet(k, v)
    \/ \E k \in Keys : IoRemoveOk(k)
    \/ \E k \in Keys : IoRemoveAbsent(k)
    \/ Drop
    \/ \E k \in Keys, v \in Values : IoSetErr(k, v)
    \/ \E k \in Keys : IoRemoveErr(k)

SpecIo == Init /\ [][NextIo]_vars

\* --------------------------------------------------------------------- CLI

\* bin/kvs.rs: const KEY_NOT_FOUND, "Key not found" as UTF-8 bytes.
KEY_NOT_FOUND == <<75, 101, 121, 32, 110, 111, 116, 32, 102, 111, 117, 110, 100>>

\* println!("{}", msg)
Println(msg) == msg \o <<10>>

\* main() that answers a get of an absent key with an empty line.
CliStdoutDefault(l) ==
    IF l.op = "get" /\ l.res = "ok"
    THEN Println(IF l.out = None THEN <<>> ELSE l.out[1])
    ELSE IF l.op = "remove" /\ l.res = "NonExistentKey"
    THEN Println(KEY_NOT_FOUND)
    ELSE <<>>

\* What main() wrote to standard output when the engine call of its command
\* returned as l records.
CliStdout(l) ==
    IF l.op = "get" /\ l.res = "ok"
    THEN Println(IF l.out = None THEN KEY_NOT_FOUND ELSE l.out[1])
    ELSE IF l.op = "remove" /\ l.res = "NonExistentKey"
    THEN Println(KEY_NOT_FOUND)
    ELSE <<>>

\* main() that returns Ok(()) after it printed KEY_NOT_FOUND for rm.
CliStatusNoExit(l) == IF l.res \in {"ok", "NonExistentKey"} THEN 0 ELSE 1

\* The exit status of the process: 0 when main() returns Ok(()), 1 from
\* process::exit(1) and when main() returns an Err.
CliStatus(l) == IF l.res = "ok" THEN 0 ELSE 1

\* main() up to its match: the store is opened on the data directory.
CliOpen == ~alive /\ OpenOk

\* main() when open returns an error: the process ends with the error.
CliOpenErr == ~alive /\ OpenErr

\* The arm of the command the process was started with, right after the
\* open.
CliGet(key) == last.op = "open" /\ Get(key)

CliSet(key, value) == last.op = "open" /\ Set(key, value)

CliRmOk(key) == last.op = "open" /\ RemoveOk(key)

CliRmAbsent(key) == last.op = "open" /\ RemoveAbsent(key)

\* The process ends after the command.
CliExit == last.op \in {"get", "set", "remove"} /\ Drop

\* The process stops inside the compaction its command started.
CliSetCrash(key, value) == last.op = "open" /\ SetCrash(key, value)

CliRmCrash(key) == last.op = "open" /\ RemoveCrash(key)

\* Runs of the executable on one data directory, one after the other.
NextCli ==
    \/ CliOpen
    \/ CliOpenErr
    \/ \E k \in Keys : CliGet(k)
    \/ \E k \in Keys, v \in Values : CliSet(k, v)
    \/ \E k \in Keys : CliRmOk(k)
    \/ \E k \in Keys : CliRmAbsent(k)
    \/ CliExit
    \/ \E k \in Keys, v \in Values : CliSetCrash(k, v)
    \/ \E k \in Keys : CliRmCrash(k)

SpecCli == Init /\ [][NextCli]_vars

\* ------------------------------------------------------------------ lib.rs

\* lib.rs:19 sets 10.  The model scales the factor down so that its logs of
\* a few records reach it.
REDUNDANCY_THRESHOLD == 2

\* The capacity of std::io::BufReader, 8 KiB in std, scaled down to the
\* records of the model: one read through a BufReader moves the cursor of
\* the file by a whole buffer, or to the end of the file.
LibBufCap == 32

\* The one value the callers of the lib.rs store write.
LibValue == <<120>>

\* A value no length in the model reaches: a length prefix with a byte set
\* beyond its low two.
LibTooLong == 65536

\* Little-endian integers of bincode: n < 256 in w bytes, and the value of a
\* little-endian byte string.
LittleEndian(n, w) == <<n>> \o Zeros(w - 1)

FromLittleEndian(bytes) ==
    IF \E i \in 3..Len(bytes) : bytes[i] # 0 THEN LibTooLong
    ELSE bytes[1] + 256 * bytes[2]

\* bincode of a String: the length as u64, then the bytes.
LibString(str) == LittleEndian(Len(str), 8) \o str

\* bincode of Command::Set { key, value } (variant 0) and of Command::Rm(key)
\* (variant 1): the variant index as u32, then the fields.
LibEncodeSet(key, value) == LittleEndian(0, 4) \o LibString(key) \o LibString(value)

LibEncodeRm(key) == LittleEndian(1, 4) \o LibString(key)

LibEncode(cmd) ==
    IF cmd.cmd = "Set" THEN LibEncodeSet(cmd.key, cmd.value) ELSE LibEncodeRm(cmd.key)

\* bincode reading a String at offset p of f.
LibReadString(f, p) ==
    IF p + 8 > Len(f) THEN [ok |-> FALSE]
    ELSE LET n == FromLittleEndian(SubSeq(f, p + 1, p + 8))
         IN  IF p + 8 + n > Len(f) THEN [ok |-> FALSE]
             ELSE [ok |-> TRUE, str |-> SubSeq(f, p + 9, p + 8 + n), next |-> p + 8 + n]

\* bincode::deserialize_from of one Command at offset p of f.
LibDecode(f, p) ==
    IF p + 4 > Len(f) THEN [ok |-> FALSE]
    ELSE LET tag == FromLittleEndian(SubSeq(f, p + 1, p + 4))
             key == LibReadString(f, p + 4)
         IN  IF tag \notin {0, 1} \/ ~key.ok THEN [ok |-> FALSE]
             ELSE IF tag = 1
             THEN [ok |-> TRUE, cmd |-> "Rm", key |-> key.str, value |-> <<>>,
                   next |-> key.next]
             ELSE LET value == LibReadString(f, key.next)
                  IN  IF ~value.ok THEN [ok |-> FALSE]
                      ELSE [ok |-> TRUE, cmd |-> "Set", key |-> key.str,
                            value |-> value.str, next |-> value.next]

\* The replay loop of open(): the index maps a key to the offset of its
\* last Set record.
RECURSIVE LibReplay(_, _, _)
LibReplay(f, pos, idx) ==
    IF pos >= Len(f) THEN [ok |-> TRUE, index |-> idx]
    ELSE LET d == LibDecode(f, pos)
         IN  IF ~d.ok THEN [ok |-> FALSE, index |-> idx]
             ELSE IF d.cmd = "Set"
             THEN LibReplay(f, d.next, [k \in DOMAIN idx \cup {d.key} |->
                                           IF k = d.key THEN pos ELSE idx[k]])
             ELSE LibReplay(f, d.next, [k \in DOMAIN idx \ {d.key} |-> idx[k]])

\* Where a BufReader that was sought to pos and read up to offset end leaves
\* the cursor of the file: it fills its buffer with whole reads of
\* LibBufCap bytes.
RECURSIVE LibCursorAfterRead(_, _, _)
LibCursorAfterRead(f, pos, end) ==
    IF pos >= Len(f) THEN Len(f)
    ELSE IF pos + LibBufCap >= end THEN Min(pos + LibBufCap, Len(f))
    ELSE LibCursorAfterRead(f, pos + LibBufCap, end)

\* fn redundancy
redundancy(l) == l.redundant \div Max(Cardinality(DOMAIN l.index), 1)

\* The loop of compact() over the sorted entries ks: each record is read
\* from the log at its offset, written again at the end of out, and its key
\* inserted with the new offset; a record that does not decode ends the
\* loop with the error.
RECURSIVE LibCopy(_, _, _, _, _)
LibCopy(f, ks, old, idx, out) ==
    IF ks = <<>> THEN [ok |-> TRUE, index |-> idx, out |-> out]
    ELSE LET d == LibDecode(f, old[Head(ks)])
         IN  IF ~d.ok THEN [ok |-> FALSE, index |-> idx, out |-> out]
             ELSE LibCopy(f, Tail(ks), old,
                          [k \in DOMAIN idx \cup {Head(ks)} |->
                              IF k = Head(ks) THEN Len(out) ELSE idx[k]],
                          out \o LibEncode(d))

\* compact() on the store l: log.new is opened without truncation and
\* written from offset 0, renamed over log, and its handle, which stands
\* behind the last byte written, becomes self.log.  redundant is not
\* assigned.  When a record does not decode the index keeps the entries
\* copied so far and log.new stays.
LibCompact(l) ==
    LET c == LibCopy(l.log, SortedKeys(DOMAIN l.index), l.index, << >>, <<>>)
        new == WriteAt(l.newLog, 0, c.out)
    IN  IF c.ok
        THEN [l EXCEPT !.log = new, !.newLog = <<>>, !.index = c.index,
                       !.cursor = Len(c.out),
                       !.last = [l.last EXCEPT !.compacted = TRUE]]
        ELSE [l EXCEPT !.newLog = new, !.index = c.index,
                       !.last = [l.last EXCEPT !.res = "Serde", !.compacted = TRUE]]

\* The end of set() and of remove().
LibFinish(l) == IF redundancy(l) > REDUNDANCY_THRESHOLD THEN LibCompact(l) ELSE l

LibCall(op, key, res, out) ==
    [op |-> op, key |-> key, res |-> res, out |-> out, compacted |-> FALSE]

\* KvStore::open of lib.rs: the replay ends with the cursor at the end of
\* the log, and redundant starts at 0.
LibOpen ==
    /\ ~lib.open
    /\ LET r == LibReplay(lib.log, 0, << >>)
       IN  lib' = IF r.ok
                  THEN [lib EXCEPT !.open = TRUE, !.index = r.index,
                                   !.redundant = 0, !.cursor = Len(lib.log),
                                   !.last = LibCall("open", <<>>, "ok", None)]
                  ELSE [lib EXCEPT !.last = LibCall("open", <<>>, "Serde", None)]
    /\ UNCHANGED <<kvVars, codec>>

\* get(): a BufReader on self.log is sought to the offset and read.
LibGet(key) ==
    /\ lib.open
    /\ lib' = IF key \notin DOMAIN lib.index
              THEN [lib EXCEPT !.last = LibCall("get", key, "ok", None)]
              ELSE LET pos == lib.index[key]
                       d == LibDecode(lib.log, pos)
                   IN  [lib EXCEPT
                          !.cursor = LibCursorAfterRead(lib.log, pos,
                                         IF d.ok THEN d.next ELSE pos + 1),
                          !.last = IF ~d.ok THEN LibCall("get", key, "Serde", None)
                                   ELSE IF d.cmd = "Set"
                                   THEN LibCall("get", key, "ok", Some(d.value))
                                   ELSE LibCall("get", key, "UnexpectedCommandType", None)]
    /\ UNCHANGED <<kvVars, codec>>

\* set(): seek to the end, insert into the index, write the record, count
\* the displaced entry.
LibSet(key, value) ==
    /\ lib.open
    /\ Len(lib.log) + Len(LibEncodeSet(key, value)) <= LibMaxLog
    /\ lib.redundant + 1 <= LibMaxRedundant
    /\ LET pos == SeekEnd(lib.log)
           rec == LibEncodeSet(key, value)
           l == [lib EXCEPT
                   !.log = WriteAt(lib.log, pos, rec),
                   !.cursor = pos + Len(rec),
                   !.index = [k \in DOMAIN lib.index \cup {key} |->
                                 IF k = key THEN pos ELSE lib.index[k]],
                   !.redundant = IF key \in DOMAIN lib.index
                                 THEN lib.redundant + 1 ELSE lib.redundant,
                   !.last = LibCall("set", key, "ok", None)]
       IN  lib' = IF key \in DOMAIN lib.index THEN LibFinish(l) ELSE l
    /\ UNCHANGED <<kvVars, codec>>

\* remove() of a key of the index: the record is written where the cursor
\* of self.log stands.
LibRemoveOk(key) ==
    /\ lib.open
    /\ key \in DOMAIN lib.index
    /\ Max(Len(lib.log), lib.cursor) + Len(LibEncodeRm(key)) <= LibMaxLog
    /\ lib.redundant + 2 <= LibMaxRedundant
    /\ LET rec == LibEncodeRm(key)
       IN  lib' = LibFinish([lib EXCEPT
                      !.log = WriteAt(lib.log, lib.cursor, rec),
                      !.cursor = lib.cursor + Len(rec),
                      !.index = [k \in DOMAIN lib.index \ {key} |-> lib.index[k]],
                      !.redundant = lib.redundant + 2,
                      !.last = LibCall("remove", key, "ok", None)])
    /\ UNCHANGED <<kvVars, codec>>

\* remove() of a key that is not in the index.
LibRemoveAbsent(key) ==
    /\ lib.open
    /\ key \notin DOMAIN lib.index
    /\ lib' = [lib EXCEPT !.last = LibCall("remove", key, "NonExistentKey", None)]
    /\ UNCHANGED <<kvVars, codec>>

\* The caller drops the instance; the files stay.
LibDrop ==
    /\ lib.open
    /\ lib' = [lib EXCEPT !.open = FALSE, !.index = << >>, !.redundant = 0,
                          !.cursor = 0, !.last = LibCall("drop", <<>>, "ok", None)]
    /\ UNCHANGED <<kvVars, codec>>

NextLib ==
    \/ LibOpen
    \/ \E k \in Keys : LibGet(k)
    \/ \E k \in Keys : LibSet(k, LibValue)
    \/ \E k \in Keys : LibRemoveOk(k)
    \/ \E k \in Keys : LibRemoveAbsent(k)
    \/ LibDrop

SpecLib == Init /\ [][NextLib]_vars

\* ------------------------------------------------------------------ claims

Found(v) == [res |-> "ok", out |-> Some(v)]
NotFound == [res |-> "ok", out |-> None]

\* C1: when an instance is dropped and the directory opened again, the open
\* succeeds and get returns for every key what it returned just before the
\* drop; the log a dropped instance leaves can be replayed.
C1_Persistence ==
    /\ (~alive /\ endedBy = "drop") => load(Log).ok
    /\ (last.op = "open" /\ endedBy = "drop")
        => (alive /\ last.res = "ok" /\ Observed = before)

\* C2: after set(k, v) returns, get(k) returns Some(v).
C2_SetThenGet ==
    (alive /\ last.op = "set" /\ last.res = "ok")
        => GetResult(last.key) = Found(last.value)

\* A set that compacted, with both keys in the store.
C2_Witness ==
    /\ alive /\ last.op = "set" /\ last.compacted
    /\ DOMAIN index = Keys

C4_RemoveAbsent ==
    [][(alive /\ last'.op = "remove" /\ last'.key \notin DOMAIN index)
        => /\ last'.res = "NonExistentKey"
           /\ ~last'.compacted
           /\ UNCHANGED <<dir, index, uncompacted, writerPos>>]_vars

\* A failed remove on a store whose counter is over the threshold.
C4_Witness ==
    /\ alive /\ last.op = "remove" /\ last.res = "NonExistentKey"
    /\ Len(Log) > 0 /\ MustCompact(uncompacted)

\* C5: a set or remove of k1 leaves the result of get(k2) as it was, for
\* every k2 other than k1.
C5_Independence ==
    (alive /\ last.op \in {"set", "remove"})
        => \A k2 \in Keys \ {last.key} : GetResult(k2) = before[k2]

\* A write of one key that compacted while the other key held a value.
C5_Witness ==
    /\ alive /\ last.op \in {"set", "remove"} /\ last.compacted
    /\ \E k2 \in Keys \ {last.key} : GetResult(k2).out # None

C7_UncompactedZero == (alive /\ last.compacted) => uncompacted = 0

\* The index entry of key points at a whole Set record of that key in the
\* log f.
PointsAtSet(f, idx, key) ==
    LET cp == idx[key]
        d == Decode(f, cp.pos, cp.pos + cp.len)
    IN  /\ cp.pos + cp.len <= Len(f)
        /\ d.ok /\ d.cmd = "Set" /\ d.key = key
        /\ d.next = cp.pos + cp.len

\* The lengths of the entries of idx for the keys of S, added up.
RECURSIVE SumLen(_, _)
SumLen(idx, S) ==
    IF S = {} THEN 0
    ELSE LET k == CHOOSE x \in S : TRUE
         IN  idx[k].len + SumLen(idx, S \ {k})

\* C8: after a compaction every entry of the index points at a Set record of
\* its key, the record of each key starts where the records of the smaller
\* keys end (so they lie from offset 0 in ascending key order, with nothing
\* between them), and the log is as long as the entries together.
C8_CompactedLayout ==
    (alive /\ last.compacted)
        => /\ \A k \in DOMAIN index :
                /\ PointsAtSet(Log, index, k)
                /\ index[k].pos =
                       SumLen(index, {j \in DOMAIN index : StrLess(j, k)})
           /\ Len(Log) = SumLen(index, DOMAIN index)

\* C9: while an instance exists, every entry of the index points at a whole
\* Set record of its key in the log.
C9_IndexPointsAtSet ==
    alive => \A k \in DOMAIN index : PointsAtSet(Log, index, k)

\* A set that displaced an entry while the log held dead records and the
\* other key.
C9_Witness ==
    /\ alive /\ last.op = "set" /\ ~last.compacted
    /\ DOMAIN index = Keys /\ uncompacted > 0
    /\ index[last.key].pos > SumLen(index, Keys \ {last.key})

\* C10: while an instance exists, the writer's position is the length of
\* kvs.log.
C10_WriterAtEnd == alive => writerPos = Len(Log)

\* The bytes of the log f that no entry of idx refers to: what a compaction
\* would discard.
DeadBytes(f, idx) == Len(f) - SumLen(idx, DOMAIN idx)

\* C11: while an instance exists, uncompacted is at most the number of bytes
\* of the log that no index entry refers to.
C11_LowerBound == alive => uncompacted <= DeadBytes(Log, index)

\* C12: on the first instance of a directory that started empty, after each
\* set returns the bytes of the log that no index entry refers to are at
\* most COMPACTION_THRESHOLD, however many sets came before; with one key in
\* the store the log is at most its one live record and the threshold.
C12_LogBounded ==
    (alive /\ endedBy = "none" /\ last.op = "set")
        => /\ DeadBytes(Log, index) <= COMPACTION_THRESHOLD
           /\ Len(Log) <= SumLen(index, DOMAIN index) + COMPACTION_THRESHOLD

\* Sets of one key that went on after the set that compacted first.
C12_Witness ==
    /\ alive /\ endedBy = "none" /\ last.op = "set" /\ last.compacted
    /\ DOMAIN index = {last.key}
    /\ uncompacted > COMPACTION_THRESHOLD + Len(EncodeSet(last.key, last.value))

\* C13: when the process stopped inside a compaction, before or after the
\* rename, the log it leaves can be replayed, and the open that follows
\* succeeds and get returns for every key what it returned as the compaction
\* started.
C13_CrashInCompaction ==
    /\ (~alive /\ endedBy = "crash") => load(Log).ok
    /\ (last.op = "open" /\ endedBy = "crash")
        => (alive /\ last.res = "ok" /\ Observed = before)

\* The records the callers of the model write.
Records ==
    {EncodeSet(k, v) : k \in Keys, v \in Values} \cup {EncodeRm(k) : k \in Keys}

\* bytes is the beginning of a record and not a whole one.
IsPartial(bytes) ==
    /\ bytes # <<>>
    /\ \E r \in Records : Len(bytes) < Len(r) /\ bytes = SubSeq(r, 1, Len(bytes))

\* C14: while no instance exists, a log made of records that replay and a
\* partially written record after them does not replay, and its replay
\* stops where the partial record starts; an open on a log that does not
\* replay returns the deserialization error, the record at which the replay
\* stopped being one that does not decode, and the open leaves no instance
\* and the log as it was.
C14_ReplayErrorPropagates ==
    [][~alive =>
          /\ \A p \in 0..Len(Log) :
                 (/\ load(SubSeq(Log, 1, p)).ok
                  /\ IsPartial(SubSeq(Log, p + 1, Len(Log))))
                     => (~load(Log).ok /\ load(Log).readerPos = p)
          /\ ~load(Log).ok
                 => /\ ~Decode(Log, load(Log).readerPos, Len(Log)).ok
                    /\ ~alive' /\ index' = EmptyIndex
                    /\ last'.op = "open" /\ last'.res = "Des"
                    /\ Log' = Log]_vars

\* An open that failed on a partial record behind whole ones.
C14_Witness ==
    /\ ~alive /\ last.op = "open" /\ last.res = "Des" /\ endedBy = "torn"
    /\ load(Log).readerPos > 0
    /\ IsPartial(SubSeq(Log, load(Log).readerPos + 1, Len(Log)))

C16_OnlyLog == alive => DOMAIN dir = {LogName}

\* The bytes of the records of the log f, from offset pos on, that a later
\* record made dead: every Set record displaced by a later Set of its key or
\* erased by a later Rm, and every Rm record.
RECURSIVE DeadFrom(_, _, _, _)
DeadFrom(f, pos, idx, dead) ==
    IF pos >= Len(f) THEN dead
    ELSE LET d == Decode(f, pos, Len(f))
             old == IF d.key \in DOMAIN idx THEN idx[d.key].len ELSE 0
         IN  IF ~d.ok THEN dead
             ELSE IF d.cmd = "Set"
             THEN DeadFrom(f, d.next, Insert(idx, d.key, CommandPos(pos, d.next)),
                           dead + old)
             ELSE DeadFrom(f, d.next, Delete(idx, d.key),
                           dead + old + (d.next - pos))

\* C19: after an open, uncompacted is the sum of the lengths of the Set
\* records a later Set displaced, of the Set records a later Rm erased, and
\* of the Rm records of the log.
C19_ReplayCountsDisplaced ==
    (alive /\ last.op = "open") => uncompacted = DeadFrom(Log, 0, EmptyIndex, 0)

\* C20: a set that does not compact adds to uncompacted the length of the
\* index entry it displaced, nothing when the key had none, and its index
\* entry starts at the writer's position before the call and ends at the
\* writer's position after it, the bytes between being the record; a remove
\* that does not compact adds the length of its Rm record and the length of
\* the entry it removed.
C20_WriteAccounting ==
    [][\A k \in Keys :
          (alive /\ alive' /\ last'.key = k /\ last'.res = "ok" /\ ~last'.compacted)
              => /\ last'.op = "set"
                     => /\ uncompacted' = uncompacted
                               + (IF k \in DOMAIN index THEN index[k].len ELSE 0)
                        /\ index'[k].pos = writerPos
                        /\ index'[k].pos + index'[k].len = writerPos'
                        /\ index'[k].len = Len(EncodeSet(k, last'.value))
                        /\ ReadBytes(Log', index'[k].pos, index'[k].len)
                               = EncodeSet(k, last'.value)
                 /\ last'.op = "remove"
                     => /\ uncompacted' = uncompacted
                               + Len(EncodeRm(k)) + index[k].len
                        /\ writerPos' - writerPos = Len(EncodeRm(k))
                        /\ ReadBytes(Log', writerPos, Len(EncodeRm(k)))
                               = EncodeRm(k)]_vars

\* A set that displaced an entry of a store with two keys and did not
\* compact.
C20_Witness ==
    /\ alive /\ last.op = "set" /\ last.res = "ok" /\ ~last.compacted
    /\ DOMAIN index = Keys
    /\ uncompacted > 0 /\ index[last.key].pos >= uncompacted

C18_CliGet ==
    [][\A k \in Keys :
          (alive /\ last.op = "open" /\ last'.op = "get" /\ last'.key = k)
              => /\ CliStatus(last') = 0
                 /\ k \notin DOMAIN index
                     => CliStdout(last') = Println(KEY_NOT_FOUND)
                 /\ k \in DOMAIN index
                     => \E v \in Values :
                            /\ ReadBytes(Log, index[k].pos, index[k].len)
                                   = EncodeSet(k, v)
                            /\ CliStdout(last') = Println(v)]_vars

\* A run of get on a present key whose record is not the first of the log.
C18_Witness ==
    /\ alive /\ last.op = "get" /\ last.key \in DOMAIN index
    /\ index[last.key].pos > 0
    /\ CliStdout(last) = Println(<<121, 121>>)

\* C21: a call compacts exactly when it is a set or a remove whose record
\* was written and whose accounting left uncompacted above
\* COMPACTION_THRESHOLD; with uncompacted at the threshold or below it the
\* call appends and does not compact; open, get, remove of an absent key and
\* a set or remove whose write failed do not compact and leave the files as
\* they are.
C21_CompactionTrigger ==
    [][(alive' /\ last'.op \in {"open", "get", "set", "remove"})
          => /\ last'.compacted
                 <=> /\ alive /\ last'.op \in {"set", "remove"} /\ last'.res = "ok"
                     /\ \E k \in Keys :
                            /\ last'.key = k
                            /\ IF last'.op = "set"
                               THEN SetAppend(k, last'.value).uncompacted
                                        > COMPACTION_THRESHOLD
                               ELSE RemoveAppend(k).uncompacted
                                        > COMPACTION_THRESHOLD
             /\ (alive /\ ~last'.compacted)
                 => \A k \in DOMAIN index \cap DOMAIN index' :
                        index'[k] # index[k] => (last'.op = "set" /\ last'.key = k)
             /\ (last'.op \in {"open", "get"} \/ last'.res # "ok")
                 => /\ Log' = Log
                    /\ DOMAIN dir' = DOMAIN dir \cup {LogName}]_vars

\* A remove that left uncompacted at the threshold and did not compact.
C21_Witness ==
    /\ alive /\ last.op = "remove" /\ last.res = "ok" /\ ~last.compacted
    /\ uncompacted = COMPACTION_THRESHOLD

\* C29: after a set or a remove whose write failed, get returns for every
\* key what it returned before the call, and what a replay of the log gives.
C29_FailedWriteKeepsIndex ==
    (alive /\ last.op \in {"set", "remove"} /\ last.res = "Ser")
        => /\ Observed = before
           /\ load(Log).ok
           /\ ObservedIn([dir |-> dir, index |-> load(Log).index]) = Observed

\* C22: a set or a remove that follows a call that compacted, on the same
\* instance, compacts only when the bytes it made dead itself (the entry it
\* displaced or removed, and its Rm record) are more than
\* COMPACTION_THRESHOLD; a set of a key that is not in the index writes its
\* record at the writer's position and does not compact.
C22_NoCompactionRightAfter ==
    [][\A k \in Keys :
          (/\ alive /\ last.compacted /\ alive'
           /\ last'.op \in {"set", "remove"} /\ last'.res = "ok" /\ last'.key = k)
              => /\ last'.compacted
                     => (IF k \in DOMAIN index THEN index[k].len ELSE 0)
                            + (IF last'.op = "remove" THEN Len(EncodeRm(k)) ELSE 0)
                                > COMPACTION_THRESHOLD
                 /\ (last'.op = "set" /\ k \notin DOMAIN index)
                     => /\ ~last'.compacted
                        /\ index'[k].pos = writerPos
                        /\ ReadBytes(Log', writerPos, index'[k].len)
                               = EncodeSet(k, last'.value)]_vars

\* The log a compaction of the mapping m writes: the Set records of the keys
\* that have a value, in ascending key order.
RECURSIVE CanonicalLog(_, _)
CanonicalLog(m, ks) ==
    IF ks = <<>> THEN <<>>
    ELSE EncodeSet(Head(ks), m[Head(ks)].out[1]) \o CanonicalLog(m, Tail(ks))

\* The keys that get finds in the mapping m.
Present(m) == {k \in DOMAIN m : m[k].res = "ok" /\ m[k].out # None}

\* C24: the log a compaction installs is a function of the key -> value
\* mapping alone: the Set records of the present keys in ascending key
\* order, whatever the history and the offsets of the records were.
C24_CompactedLogDeterministic ==
    (alive /\ last.compacted)
        => Log = CanonicalLog(Observed, SortedKeys(Present(Observed)))

\* C30: when a compaction runs in a directory that holds a new.log, the
\* kvs.log it installs is as long as the entries of the index together,
\* the writer stands at its end, and its bytes are the records of the
\* index in key order and nothing else.
C30_LeftoverNewLog ==
    [][(alive /\ NewName \in DOMAIN dir /\ alive' /\ last'.compacted)
          => /\ Len(Log') = SumLen(index', DOMAIN index')
             /\ writerPos' = Len(Log')
             /\ Log' = CopyEntries(Log', SortedKeys(DOMAIN index'), index', <<>>).out
             /\ NewName \notin DOMAIN dir']_vars

\* The record a successful set or remove of the lib.rs store writes.
LibRecordOf(call) ==
    IF call.op = "set" THEN LibEncodeSet(call.key, LibValue) ELSE LibEncodeRm(call.key)

\* C23: the log is append-only between compactions: a successful set or
\* remove that does not compact leaves the bytes the log had and adds its
\* record behind them, whatever get calls came before.
C23_AppendOnly ==
    [][(/\ lib' # lib
        /\ lib'.open
        /\ lib'.last.op \in {"set", "remove"}
        /\ lib'.last.res = "ok"
        /\ ~lib'.last.compacted)
          => lib'.log = lib.log \o LibRecordOf(lib'.last)]_vars

\* The number of records of a log, as the replay reads them.
RECURSIVE LibRecords(_, _)
LibRecords(f, pos) ==
    IF pos >= Len(f) THEN 0
    ELSE LET d == LibDecode(f, pos)
         IN  IF ~d.ok THEN 0 ELSE 1 + LibRecords(f, d.next)

\* C25: after every successful set or remove of the lib.rs store, on a
\* fresh or a reopened instance, the records of the log that are not the
\* live record of a key are at most REDUNDANCY_THRESHOLD times the number
\* of live keys (counted as 1 when there is none).
C25_RedundancyBounded ==
    (lib.open /\ lib.last.op \in {"set", "remove"} /\ lib.last.res = "ok")
        => LibRecords(lib.log, 0) - Cardinality(DOMAIN lib.index)
               <= REDUNDANCY_THRESHOLD * Max(Cardinality(DOMAIN lib.index), 1)

\* ------------------------------------------------------------------ RESP

\* Bytes of the protocol: "\r\n" and the characters that start a value.
CRLF == <<13, 10>>

Dollar == 36

Star == 42

Plus == 43

Minus == 45

Colon == 58

\* The digits a decimal number may have in the model; TLC's integers end at
\* 2^31 - 1, so a longer number is outside the model and read as no number.
MaxDigits == 9

\* format!("{}", n) of an integer.
RECURSIVE Decimal(_)
Decimal(n) ==
    IF n < 0 THEN <<Minus>> \o Decimal(0 - n)
    ELSE IF n < 10 THEN <<48 + n>>
    ELSE Decimal(n \div 10) \o <<48 + (n % 10)>>

RECURSIVE DigitsValue(_)
DigitsValue(ds) ==
    IF ds = <<>> THEN 0
    ELSE 10 * DigitsValue(SubSeq(ds, 1, Len(ds) - 1)) + (ds[Len(ds)] - 48)

IsDigits(ds) ==
    /\ Len(ds) \in 1..MaxDigits
    /\ \A i \in 1..Len(ds) : ds[i] \in 48..57

\* str::parse of a signed integer (i64, isize): an optional sign, then
\* digits.
ParseSigned(bytes) ==
    IF bytes # <<>> /\ bytes[1] \in {Plus, Minus}
    THEN IF IsDigits(Tail(bytes))
         THEN [ok |-> TRUE,
               n |-> IF bytes[1] = Minus THEN 0 - DigitsValue(Tail(bytes))
                     ELSE DigitsValue(Tail(bytes))]
         ELSE [ok |-> FALSE, n |-> 0]
    ELSE IF IsDigits(bytes) THEN [ok |-> TRUE, n |-> DigitsValue(bytes)]
         ELSE [ok |-> FALSE, n |-> 0]

\* str::parse::<u32>: an optional "+", then digits; a "-" is no digit.
ParseUnsigned(bytes) ==
    IF bytes # <<>> /\ bytes[1] = Minus THEN [ok |-> FALSE, n |-> 0]
    ELSE ParseSigned(bytes)

\* str::from_utf8, on the bytes of the model: ASCII is UTF-8, and a byte
\* from 128 on does not stand alone.
IsUtf8(bytes) == \A i \in 1..Len(bytes) : bytes[i] < 128

\* str::to_uppercase on ASCII.
ToUppercase(str) ==
    [i \in 1..Len(str) |-> IF str[i] \in 97..122 THEN str[i] - 32 ELSE str[i]]

\* enum RedisValue
RedisNull == [t |-> "Null", data |-> <<>>, n |-> 0, vals |-> <<>>]

RedisStr(data) == [t |-> "Str", data |-> data, n |-> 0, vals |-> <<>>]

RedisErr(data) == [t |-> "Err", data |-> data, n |-> 0, vals |-> <<>>]

RedisInt(n) == [t |-> "Int", data |-> <<>>, n |-> n, vals |-> <<>>]

RedisArray(vals) == [t |-> "Array", data |-> <<>>, n |-> 0, vals |-> vals]

\* IResult of nom: Ok((rest, val)), Err(Err::Error) which lets an alternative
\* be tried, and Err(Err::Incomplete) of the streaming parsers.
ParseOk(rest, val) == [st |-> "Ok", rest |-> rest, val |-> val]

ParseError == [st |-> "Error", rest |-> <<>>, val |-> RedisNull]

ParseIncomplete == [st |-> "Incomplete", rest |-> <<>>, val |-> RedisNull]

\* Parser::or: the second parser runs on the same input when the first
\* ended with Err::Error.
Or(first, second) == IF first.st = "Error" THEN second ELSE first

\* nom::character::streaming::char
Char(c, i) ==
    IF i = <<>> THEN ParseIncomplete
    ELSE IF i[1] = c THEN ParseOk(Tail(i), RedisNull)
    ELSE ParseError

\* nom::bytes::streaming::tag: the bytes both have are compared first.
Tag(t, i) ==
    IF \E k \in 1..Min(Len(t), Len(i)) : t[k] # i[k] THEN ParseError
    ELSE IF Len(i) >= Len(t) THEN ParseOk(SubSeq(i, Len(t) + 1, Len(i)), RedisNull)
    ELSE ParseIncomplete

\* fn until_end: the bytes before the first "\r\n", as val.data.
until_end(i) ==
    LET ends == {k \in 1..(Len(i) - 1) : i[k] = 13 /\ i[k + 1] = 10}
    IN  IF ends = {} THEN ParseIncomplete
        ELSE LET k == CHOOSE e \in ends : \A o \in ends : e <= o
             IN  ParseOk(SubSeq(i, k + 2, Len(i)), RedisStr(SubSeq(i, 1, k - 1)))

\* preceded(char(c), until_end)
Line(c, i) ==
    LET start == Char(c, i)
    IN  IF start.st # "Ok" THEN start ELSE until_end(start.rest)

\* fn error
error(i) ==
    LET l == Line(Minus, i)
    IN  IF l.st # "Ok" THEN l ELSE ParseOk(l.rest, RedisErr(l.val.data))

\* fn simple_string
simple_string(i) ==
    LET l == Line(Plus, i)
    IN  IF l.st # "Ok" THEN l ELSE ParseOk(l.rest, RedisStr(l.val.data))

\* map_res(map_res(preceded(char(c), until_end), str::from_utf8), parse::<u32>)
Length(c, i) ==
    LET l == Line(c, i)
        n == ParseUnsigned(l.val.data)
    IN  IF l.st # "Ok" THEN l
        ELSE IF ~IsUtf8(l.val.data) \/ ~n.ok THEN ParseError
        ELSE ParseOk(l.rest, RedisInt(n.n))

\* fn bulk_string
bulk_string(i) ==
    LET len == Length(Dollar, i)
    IN  IF len.st # "Ok" THEN len
        ELSE IF Len(len.rest) < len.val.n THEN ParseIncomplete
        ELSE LET end == Tag(CRLF, SubSeq(len.rest, len.val.n + 1, Len(len.rest)))
             IN  IF end.st # "Ok" THEN end
                 ELSE ParseOk(end.rest, RedisStr(SubSeq(len.rest, 1, len.val.n)))

\* The first alternative of null alone.
nullStarOnly(i) == Tag(<<Star, Minus, 49>> \o CRLF, i)

\* fn null
null(i) ==
    Or(Tag(<<Star, Minus, 49>> \o CRLF, i), Tag(<<Dollar, Minus, 49>> \o CRLF, i))

\* fn integer
integer(i) ==
    LET l == Line(Colon, i)
        n == ParseSigned(l.val.data)
    IN  IF l.st # "Ok" THEN l
        ELSE IF ~IsUtf8(l.val.data) \/ ~n.ok THEN ParseError
        ELSE ParseOk(l.rest, RedisInt(n.n))

RECURSIVE value(_)
RECURSIVE Elements(_, _, _)

\* fn array
array(i) ==
    LET len == Length(Star, i)
    IN  IF len.st # "Ok" THEN len ELSE Elements(len.rest, len.val.n, <<>>)

\* The loop of array: len more values are read from i behind vals.
Elements(i, len, vals) ==
    IF len = 0 THEN ParseOk(i, RedisArray(vals))
    ELSE LET v == value(i)
         IN  IF v.st # "Ok" THEN v
             ELSE Elements(v.rest, len - 1, Append(vals, v.val))

\* pub fn value
value(i) ==
    Or(simple_string(i),
       Or(bulk_string(i),
          Or(error(i),
             Or(null(i),
                Or(integer(i), array(i))))))

\* The way a value is written on the wire: +data, -data, :n, $len data, the
\* null $-1, the null *-1, or *len followed by the items.
Wire(form, data, n, items) == [form |-> form, data |-> data, n |-> n, items |-> items]

\* The texts of the inputs: "", "OK", "foobar", and for a bulk string also
\* "\r\n" and "-1".
Texts == {<<>>, <<79, 75>>, <<102, 111, 111, 98, 97, 114>>}

BulkTexts == Texts \cup {CRLF, <<Minus, 49>>}

Numbers == {0 - 1, 0, 7, 1000}

\* The inputs that are no array.
Atoms ==
    {Wire("simple", d, 0, <<>>) : d \in Texts}
        \cup {Wire("error", d, 0, <<>>) : d \in Texts}
        \cup {Wire("bulk", d, 0, <<>>) : d \in BulkTexts}
        \cup {Wire("int", <<>>, n, <<>>) : n \in Numbers}
        \cup {Wire("null$", <<>>, 0, <<>>), Wire("null*", <<>>, 0, <<>>)}

\* Longest array of the inputs.
MaxItems == 2

ArraysOver(items) ==
    {Wire("array", <<>>, 0, is) :
        is \in UNION {[1..k -> items] : k \in 0..MaxItems}}

\* The items of the nested arrays.
Inner ==
    {Wire("array", <<>>, 0, <<>>),
     Wire("array", <<>>, 0, <<Wire("int", <<>>, 1, <<>>), Wire("null*", <<>>, 0, <<>>)>>),
     Wire("array", <<>>, 0, <<Wire("simple", <<70, 111, 111>>, 0, <<>>),
                               Wire("error", <<66, 97, 114>>, 0, <<>>)>>),
     Wire("null$", <<>>, 0, <<>>),
     Wire("bulk", <<>>, 0, <<>>)}

Wires == Atoms \cup ArraysOver(Atoms) \cup ArraysOver(Inner)

RECURSIVE Encoding(_)
RECURSIVE EncodingOfAll(_)

\* The complete encoding of a value.
Encoding(w) ==
    CASE w.form = "simple" -> <<Plus>> \o w.data \o CRLF
      [] w.form = "error" -> <<Minus>> \o w.data \o CRLF
      [] w.form = "int" -> <<Colon>> \o Decimal(w.n) \o CRLF
      [] w.form = "bulk" -> <<Dollar>> \o Decimal(Len(w.data)) \o CRLF \o w.data \o CRLF
      [] w.form = "null$" -> <<Dollar, Minus, 49>> \o CRLF
      [] w.form = "null*" -> <<Star, Minus, 49>> \o CRLF
      [] w.form = "array" ->
            <<Star>> \o Decimal(Len(w.items)) \o CRLF \o EncodingOfAll(w.items)

EncodingOfAll(ws) ==
    IF ws = <<>> THEN <<>> ELSE Encoding(Head(ws)) \o EncodingOfAll(Tail(ws))

RECURSIVE Corresponding(_)

\* The RedisValue an encoding stands for.
Corresponding(w) ==
    CASE w.form \in {"simple", "bulk"} -> RedisStr(w.data)
      [] w.form = "error" -> RedisErr(w.data)
      [] w.form = "int" -> RedisInt(w.n)
      [] w.form \in {"null$", "null*"} -> RedisNull
      [] w.form = "array" ->
            RedisArray([k \in 1..Len(w.items) |-> Corresponding(w.items[k])])

\* A caller holds the complete encoding of a value.
ParserInput(w) ==
    /\ codec.at = "idle"
    /\ codec' = [at |-> "input", wire |-> w, input |-> Encoding(w)]
    /\ UNCHANGED <<kvVars, lib>>

\* The caller applies value to it.
ParserValue ==
    /\ codec.at = "input"
    /\ codec' = [at |-> "parsed", wire |-> codec.wire, input |-> codec.input,
                 result |-> value(codec.input)]
    /\ UNCHANGED <<kvVars, lib>>

NextParser ==
    \/ \E w \in Wires : ParserInput(w)
    \/ ParserValue

SpecParser == Init /\ [][NextParser]_vars

\* C26: value applied to the complete encoding of a value returns the
\* RedisValue the encoding stands for and an empty remainder: simple and
\* bulk strings, errors, integers, both nulls, arrays, nested arrays.
C26_ParsesCompleteValue ==
    codec.at = "parsed"
        => codec.result = ParseOk(<<>>, Corresponding(codec.wire))

\* A nested array with a null and an empty array among its items was parsed.
C26_Witness ==
    /\ codec.at = "parsed"
    /\ codec.wire.form = "array"
    /\ Len(codec.wire.items) = 2
    /\ codec.wire.items[1] = Wire("array", <<>>, 0, <<>>)
    /\ codec.wire.items[2].form = "array"
    /\ Len(codec.wire.items[2].items) = 2
    /\ codec.wire.items[2].items[2].form = "null*"
    /\ codec.result.st = "Ok"
    /\ codec.result.rest = <<>>
    /\ codec.result.val.vals[2].vals[2] = RedisNull

\* ------------------------------------------------------------ RESP writer

\* fn serialize_bytes, and serialize_str which forwards to it.
serialize_bytes(v) == <<Dollar>> \o Decimal(Len(v)) \o CRLF \o v \o CRLF

serialize_str(v) == serialize_bytes(v)

\* fn serialize_none
serialize_none == <<Dollar, Minus, 49>> \o CRLF

\* fn serialize_some on a string.
serialize_some(v) == serialize_str(v)

\* The array header with len in place of len + 1.
serialize_struct_len(name, len) ==
    <<Star>> \o Decimal(len) \o CRLF \o serialize_bytes(ToUppercase(name))

\* fn serialize_struct
serialize_struct(name, len) ==
    <<Star>> \o Decimal(len + 1) \o CRLF \o serialize_bytes(ToUppercase(name))

\* SerializeStruct::serialize_field on an Option of a string.
serialize_field(field) ==
    IF field = None THEN serialize_none ELSE serialize_some(field[1])

RECURSIVE serialize_fields(_)
serialize_fields(fields) ==
    IF fields = <<>> THEN <<>>
    ELSE serialize_field(Head(fields)) \o serialize_fields(Tail(fields))

\* The bytes to_writer writes for a struct of Option<String> fields, as the
\* derived Serialize drives the serializer: serialize_struct, one
\* serialize_field per field in declaration order, end.
to_writer_struct(st) ==
    serialize_struct(st.name, Len(st.fields)) \o serialize_fields(st.fields)

\* The structs of the callers: the names "Ping", "Set", "a"; the strings
\* "", "test", "\r\n" and "0123456789"; up to MaxFields fields of any kind,
\* or WideFields - 1 and WideFields fields of one kind.
StructNames == {<<80, 105, 110, 103>>, <<83, 101, 116>>, <<97>>}

FieldTexts ==
    {<<>>, <<116, 101, 115, 116>>, CRLF, <<48, 49, 50, 51, 52, 53, 54, 55, 56, 57>>}

Fields == {None} \cup {Some(t) : t \in FieldTexts}

MaxFields == 2

WideFields == 10

Structs ==
    {[name |-> n, fields |-> fs] :
        n \in StructNames,
        fs \in UNION {[1..k -> Fields] : k \in 0..MaxFields}
                  \cup {[i \in 1..k |-> f] : k \in (WideFields - 1)..WideFields,
                                             f \in Fields}}

\* Ping { msg: Some("test") } of test_command, and the bytes it expects.
TestPing == [name |-> <<80, 105, 110, 103>>, fields |-> <<Some(<<116, 101, 115, 116>>)>>]

TestPingBytes ==
    <<Star, 50>> \o CRLF \o <<Dollar, 52>> \o CRLF \o <<80, 73, 78, 71>> \o CRLF
        \o <<Dollar, 52>> \o CRLF \o <<116, 101, 115, 116>> \o CRLF

\* A caller holds a struct.
SerInput(st) ==
    /\ codec.at = "idle"
    /\ codec' = [at |-> "value", struct |-> st]
    /\ UNCHANGED <<kvVars, lib>>

\* to_writer on it, into an empty buffer.
SerWrite ==
    /\ codec.at = "value"
    /\ codec' = [at |-> "written", struct |-> codec.struct,
                 out |-> to_writer_struct(codec.struct)]
    /\ UNCHANGED <<kvVars, lib>>

NextSer ==
    \/ \E st \in Structs : SerInput(st)
    \/ SerWrite

SpecSer == Init /\ [][NextSer]_vars

\* The bulk string of s, written out byte by byte.
BulkOf(s) == <<Dollar>> \o Decimal(Len(s)) \o CRLF \o s \o CRLF

\* C27: what to_writer wrote for a struct of n fields starts with the
\* header *<n+1> and the bulk string of the upper-cased name; read as RESP
\* it is one array of n + 1 values, the name first and then the fields in
\* declaration order, with the string s where the field is Some(s); a
\* Some(s) field is on the wire as $<len>\r\n<s>\r\n, and Ping { msg:
\* Some("test") } gives *2\r\n$4\r\nPING\r\n$4\r\ntest\r\n.
C27_StructOnTheWire ==
    codec.at = "written" =>
        LET st == codec.struct
            n == Len(st.fields)
            head == <<Star>> \o Decimal(n + 1) \o CRLF \o BulkOf(ToUppercase(st.name))
            read == value(codec.out)
        IN  /\ SubSeq(codec.out, 1, Len(head)) = head
            /\ read.st = "Ok"
            /\ read.rest = <<>>
            /\ read.val.t = "Array"
            /\ Len(read.val.vals) = n + 1
            /\ read.val.vals[1] = RedisStr(ToUppercase(st.name))
            /\ \A k \in 1..n :
                  st.fields[k] # None => read.val.vals[k + 1] = RedisStr(st.fields[k][1])
            /\ (n = 1 /\ st.fields[1] # None)
                  => codec.out = head \o BulkOf(st.fields[1][1])
            /\ st = TestPing => codec.out = TestPingBytes

\* Ping { msg: Some("test") } was written.
C27_Witness ==
    /\ codec.at = "written"
    /\ codec.struct = TestPing
    /\ codec.out = TestPingBytes

\* ------------------------------------------------------------ RESP reader

\* struct Deserializer: the bytes the reader still holds, and the buffer.
Deserializer(reader) == [reader |-> reader, buffer |-> <<>>]

\* Result of the functions of the deserializer: Ok(val) with the
\* deserializer as the call left it, or Err(err); a panic is the error
\* "panic".
DeOk(de, val) == [ok |-> TRUE, err |-> "", de |-> de, val |-> val]

DeErr(err) == [ok |-> FALSE, err |-> err, de |-> Deserializer(<<>>), val |-> None]

\* The length of the next line of the reader, its "\n" included: what
\* read_until(b'\n') returns.
LineEnd(reader) ==
    LET ends == {k \in 1..Len(reader) : reader[k] = 10}
    IN  IF ends = {} THEN Len(reader)
        ELSE CHOOSE e \in ends : \A o \in ends : e <= o

\* read_next_item once read_until returned len.
ItemOf(de, len) ==
    IF ~IsUtf8(SubSeq(de.reader, 1, len)) THEN DeErr("Utf8")
    ELSE IF len = 0 THEN DeErr("Eof")
    ELSE IF len < 2 \/ SubSeq(de.reader, len - 1, len) # CRLF THEN DeErr("InvalidFormat")
    ELSE DeOk([reader |-> SubSeq(de.reader, len + 1, Len(de.reader)),
               buffer |-> SubSeq(de.reader, 1, len - 2)],
              SubSeq(de.reader, 1, len - 2))

\* fn read_next_item: the buffer takes the bytes up to the first "\n" and
\* loses its "\r\n".
read_next_item(de) == ItemOf(de, LineEnd(de.reader))

\* parse_len once the number was parsed: -1 is None, another negative
\* number no length.
LenOf(de, len) ==
    IF ~len.ok THEN DeErr("ParseInt")
    ELSE IF len.n = 0 - 1 THEN DeOk(de, None)
    ELSE IF len.n < 0 THEN DeErr("InvalidLen")
    ELSE DeOk(de, Some(len.n))

\* fn parse_len: the number behind the first byte of the buffer.  Slicing
\* an empty buffer from 1 panics.
parse_len(de) ==
    IF de.buffer = <<>> THEN DeErr("panic")
    ELSE IF ~IsUtf8(Tail(de.buffer)) THEN DeErr("Utf8")
    ELSE LenOf(de, ParseSigned(Tail(de.buffer)))

\* parse_bulk_string with length n: n + 2 bytes are read into the buffer,
\* which loses its "\r\n".
ReadBulk(de, n) ==
    IF Len(de.reader) < n + 2 THEN DeErr("Io")
    ELSE IF ~IsUtf8(SubSeq(de.reader, 1, n + 2)) THEN DeErr("Utf8")
    ELSE IF SubSeq(de.reader, n + 1, n + 2) # CRLF THEN DeErr("InvalidLen")
    ELSE DeOk([reader |-> SubSeq(de.reader, n + 3, Len(de.reader)),
               buffer |-> SubSeq(de.reader, 1, n)],
              Some(SubSeq(de.reader, 1, n)))

\* parse_bulk_string once parse_len returned.
BulkOfLen(de, len) ==
    IF ~len.ok THEN len
    ELSE IF len.val = None THEN DeOk(de, None)
    ELSE ReadBulk(de, len.val[1])

\* fn parse_bulk_string
parse_bulk_string(de) ==
    IF de.buffer = <<>> THEN DeErr("panic")
    ELSE IF de.buffer[1] # Dollar THEN DeErr("ExpectedBulkString")
    ELSE BulkOfLen(de, parse_len(de))

\* parse_any_str once parse_bulk_string returned.
AnyStrOfBulk(bulk) ==
    IF ~bulk.ok THEN bulk
    ELSE IF bulk.val = None THEN DeErr("ExpectedBulkString")
    ELSE IF ~IsUtf8(bulk.val[1]) THEN DeErr("Utf8")
    ELSE DeOk(bulk.de, bulk.val[1])

\* fn parse_any_str
parse_any_str(de) ==
    IF de.buffer = <<>> THEN DeErr("InvalidFormat")
    ELSE IF de.buffer[1] = Dollar THEN AnyStrOfBulk(parse_bulk_string(de))
    ELSE IF de.buffer[1] \in {Plus, Minus}
    THEN IF ~IsUtf8(Tail(de.buffer)) THEN DeErr("Utf8") ELSE DeOk(de, Tail(de.buffer))
    ELSE DeErr("InvalidFormat")

StartsWith(buf, prefix) ==
    Len(buf) >= Len(prefix) /\ SubSeq(buf, 1, Len(prefix)) = prefix

\* visit_some for an Option<String>: deserialize_string returned str.
visit_some(str) == IF ~str.ok THEN str ELSE DeOk(str.de, Some(str.val))

\* deserialize_option once read_next_item returned.
OptionOfItem(item) ==
    IF ~item.ok THEN item
    ELSE IF StartsWith(item.val, <<Star, Minus, 49>>)
              \/ StartsWith(item.val, <<Dollar, Minus, 49>>)
    THEN DeOk(item.de, None)
    ELSE visit_some(parse_any_str(item.de))

\* fn deserialize_option for an Option<String>: visit_none, or visit_some
\* which reads the String with deserialize_string on the same buffer.
deserialize_option(de) == OptionOfItem(read_next_item(de))

\* Command::next_element_seed and the visit_seq serde derives for a struct
\* of one Option<String> field: without an element the length is invalid.
visit_seq(de, remaining) ==
    IF remaining = 0 THEN DeErr("invalid length") ELSE deserialize_option(de)

\* deserialize_struct once the name of the command was read.
StructOfCommand(cmd_name, len, name) ==
    IF ~cmd_name.ok THEN cmd_name
    ELSE IF cmd_name.val = None THEN DeErr("ExpectedBulkString")
    ELSE IF cmd_name.val[1] # ToUppercase(name) THEN DeErr("invalid command")
    ELSE visit_seq(cmd_name.de, len - 1)

\* deserialize_struct once the item of the name was read.
StructOfName(next, len, name) ==
    IF ~next.ok THEN next
    ELSE StructOfCommand(parse_bulk_string(next.de), len, name)

\* deserialize_struct once parse_len returned.
StructOfLen(len, name) ==
    IF ~len.ok THEN len
    ELSE IF len.val = None THEN DeErr("ExpectedArray")
    ELSE IF len.val[1] = 0 THEN DeErr("InvalidCommand")
    ELSE StructOfName(read_next_item(len.de), len.val[1], name)

\* deserialize_struct once the first item was read; buf[0] of an empty item
\* panics.
StructOfItem(item, name) ==
    IF ~item.ok THEN item
    ELSE IF item.val = <<>> THEN DeErr("panic")
    ELSE IF item.val[1] # Star THEN DeErr("ExpectedArray")
    ELSE StructOfLen(parse_len(item.de), name)

\* fn deserialize_struct, for a struct of one Option<String> field.
deserialize_struct(de, name) == StructOfItem(read_next_item(de), name)

\* struct Ping and enum PingResponse; the name of the struct, and the names
\* serde uses for the variants: "PONG" (renamed) and "Echo".
PingName == <<80, 105, 110, 103>>

PongName == <<80, 79, 78, 71>>

EchoName == <<69, 99, 104, 111>>

Ping(msg) == [msg |-> msg]

Pong == [variant |-> "Pong", msg |-> <<>>]

Echo(msg) == [variant |-> "Echo", msg |-> msg]

\* visit_enum on the string deserializer of str, for PingResponse: it finds
\* the variant of that name and has unit variants only.
visit_enum(str) ==
    IF ~str.ok THEN str
    ELSE IF str.val = PongName THEN DeOk(str.de, Pong)
    ELSE IF str.val = EchoName THEN DeErr("invalid type")
    ELSE DeErr("unknown variant")

\* deserialize_enum once read_next_item returned.
EnumOfItem(item) == IF ~item.ok THEN item ELSE visit_enum(parse_any_str(item.de))

\* fn deserialize_enum for PingResponse: the item is read as a string and
\* handed to visit_enum.
deserialize_enum(de) == EnumOfItem(read_next_item(de))

\* The Ping of the field deserialize_struct returned.
PingOf(r) == IF r.ok THEN DeOk(r.de, Ping(r.val)) ELSE r

\* from_reader::<Ping> and from_reader::<PingResponse>
from_reader_Ping(reader) == PingOf(deserialize_struct(Deserializer(reader), PingName))

from_reader_PingResponse(reader) == deserialize_enum(Deserializer(reader))

\* to_writer on a Ping, and on a PingResponse: serialize_unit_variant writes
\* the upper-cased name of the variant, serialize_newtype_variant the value.
to_writer_Ping(req) == to_writer_struct([name |-> PingName, fields |-> <<req.msg>>])

to_writer_PingResponse(rsp) ==
    IF rsp.variant = "Pong" THEN serialize_str(ToUppercase(PongName))
    ELSE serialize_str(rsp.msg)

\* The messages of the client's lines: "PONG", "Echo", "0123456789", and
\* the strings of "a", " " and "$" up to MaxMsgLen bytes.
MaxMsgLen == 3

Msgs ==
    {PongName, EchoName, <<48, 49, 50, 51, 52, 53, 54, 55, 56, 57>>}
        \cup UNION {[1..k -> {97, 32, Dollar}] : k \in 0..MaxMsgLen}

Pings == {Ping(None)} \cup {Ping(Some(m)) : m \in Msgs}

\* redis-ping-client: a line "PING" or "PING m" is sent as a Ping.
PingSend(req) ==
    /\ codec.at = "idle"
    /\ codec' = [at |-> "sent", req |-> req, toServer |-> to_writer_Ping(req)]
    /\ UNCHANGED <<kvVars, lib>>

\* The answer of the server to a request.
Respond(req) == IF req.msg = None THEN Pong ELSE Echo(req.msg[1])

\* The exchange once the server's from_reader returned got.
Served(req, got) ==
    IF got.ok
    THEN [at |-> "replied", req |-> req, served |-> got.val, rsp |-> Respond(got.val),
          toClient |-> to_writer_PingResponse(Respond(got.val))]
    ELSE [at |-> "server panicked", req |-> req, err |-> got.err]

\* redis-ping-server: the request is read, answered with Pong or with
\* Echo(msg), and the answer written; a request that does not read panics
\* in unwrap.
PingServe ==
    /\ codec.at = "sent"
    /\ codec' = Served(codec.req, from_reader_Ping(codec.toServer))
    /\ UNCHANGED <<kvVars, lib>>

\* The exchange once the client's from_reader returned got.
Received(c, got) ==
    IF got.ok
    THEN [at |-> "received", req |-> c.req, served |-> c.served, rsp |-> c.rsp,
          got |-> got.val,
          shown |-> IF got.val.variant = "Pong" THEN PongName ELSE got.val.msg]
    ELSE [at |-> "client panicked", req |-> c.req, served |-> c.served,
          rsp |-> c.rsp, err |-> got.err]

\* redis-ping-client: the response is read and its content printed; a
\* response that does not read panics in unwrap.
PingReceive ==
    /\ codec.at = "replied"
    /\ codec' = Received(codec, from_reader_PingResponse(codec.toClient))
    /\ UNCHANGED <<kvVars, lib>>

NextPing ==
    \/ \E req \in Pings : PingSend(req)
    \/ PingServe
    \/ PingReceive

SpecPing == Init /\ [][NextPing]_vars

\* C28: the ping demo round-trips through the codec: the server reads the
\* Ping the client wrote, the client reads the PingResponse the server
\* wrote, and it shows m for PING m and PONG for a bare PING; nobody panics
\* on the way.
C28_PingRoundTrip ==
    /\ codec.at \notin {"server panicked", "client panicked"}
    /\ codec.at \in {"replied", "received"} => codec.served = codec.req
    /\ codec.at = "received" =>
          /\ codec.got = codec.rsp
          /\ codec.shown = IF codec.req.msg = None THEN PongName ELSE codec.req.msg[1]

\* ------------------------------------------------------------- either store

\* A data directory is served by one of the two stores, kv.rs or lib.rs: the
\* first open decides, and the other store is never opened on it.
KvOnly == lib.last.op = "none"

LibOnly == last.op = "none"

\* The calls of a caller on the store of its choice, and the process
\* stopping inside the write of a record of the kv.rs store.
NextEither ==
    \/ KvOnly /\ OpenOk
    \/ KvOnly /\ OpenErr
    \/ \E k \in Keys : KvOnly /\ Get(k)
    \/ \E k \in Keys, v \in Values : KvOnly /\ Set(k, v)
    \/ \E k \in Keys : KvOnly /\ RemoveOk(k)
    \/ \E k \in Keys : KvOnly /\ RemoveAbsent(k)
    \/ KvOnly /\ Drop
    \/ \E k \in Keys, v \in Values : KvOnly /\ SetTorn(k, v)
    \/ \E k \in Keys : KvOnly /\ RemoveTorn(k)
    \/ LibOnly /\ LibOpen
    \/ \E k \in Keys : LibOnly /\ LibGet(k)
    \/ \E k \in Keys : LibOnly /\ LibSet(k, LibValue)
    \/ \E k \in Keys : LibOnly /\ LibRemoveOk(k)
    \/ \E k \in Keys : LibOnly /\ LibRemoveAbsent(k)
    \/ LibOnly /\ LibDrop

SpecEither == Init /\ [][NextEither]_vars

\* C31: an open, successful or failed, and a drop leave every byte of an
\* existing log as it was, in the kv.rs store (kvs.log) and in the lib.rs
\* store (log); so does any sequence of opens and drops.
C31_OpenKeepsLog ==
    [][/\ (~alive /\ last'.op = "open") => FileOf(dir', LogName) = Log
       /\ (alive /\ last'.op = "drop") => FileOf(dir', LogName) = Log
       /\ (~lib.open /\ lib'.last.op = "open") => lib'.log = lib.log
       /\ (lib.open /\ lib'.last.op = "drop") => lib'.log = lib.log]_vars

\* A kv.rs store was opened again, after a drop, on a log that holds records.
C31_Witness ==
    /\ alive
    /\ last.op = "open"
    /\ last.res = "ok"
    /\ endedBy = "drop"
    /\ Len(Log) > 0

\* C32: after every successful open, set and remove, compacting or not, the
\* byte ranges [pos, pos + len) of the index entries are pairwise disjoint
\* and each lies within the length of the log.
C32_RangesDisjointInLog ==
    (alive /\ last.op \in {"open", "set", "remove"} /\ last.res = "ok") =>
        /\ \A k \in DOMAIN index : index[k].pos + index[k].len <= Len(Log)
        /\ \A k1, k2 \in DOMAIN index :
               k1 # k2 => \/ index[k1].pos + index[k1].len <= index[k2].pos
                          \/ index[k2].pos + index[k2].len <= index[k1].pos

\* A set compacted and left both keys in the index.
C32_Witness ==
    /\ alive
    /\ last.op = "set"
    /\ last.res = "ok"
    /\ last.compacted
    /\ DOMAIN index = Keys

=============================================================================
